---- MODULE Spec2Model ----
(***************************************************************************)
(* Two-tier cache of xiaomusic/utils/cache_manager.py: CacheManager (an    *)
(* in-process dict in front of one pickle file per key) and the            *)
(* MusicListCache facade over it.                                          *)
(*                                                                         *)
(* Every operation is one atomic action: the coroutines of CacheManager    *)
(* contain no await, so on the event loop each call runs to completion.    *)
(* File I/O may fail; a failure is an input of the action (fault).         *)
(* Time is time.time() in whole model units; Tick advances it.             *)
(*                                                                         *)
(* Three specifications share the state and the operators:                 *)
(*   Spec        CacheManager called directly, one key in use at a time,   *)
(*               every ttl, both payloads, foreign file contents           *)
(*   SpecKeys    CacheManager called directly, two keys in use together    *)
(*   SpecFacade  MusicListCache calls only                                 *)
(***************************************************************************)
EXTENDS Integers, FiniteSets, Sequences, TLC

\* ------------------------------------------------------------- bounds ----
MaxTime == 2        \* the clock runs over 0..MaxTime
MaxTTL == 3         \* ttl arguments and default_ttl range over 1..MaxTTL
MaxBatch == 2       \* get_duration_batch is asked for at most MaxBatch filenames

\* ---------------------------------------------------------- constants ----
\* MusicListCache.MUSIC_LIST_TTL (7200 s) and DURATION_TTL (86400 s) in
\* model time units; the order 7200 < 86400 is kept.
MUSIC_LIST_TTL == 2
DURATION_TTL == 3

\* ------------------------------------------------------------- values ----
None == "None"                     \* Python None as a returned / stored value
NoKey == "<None>"                  \* clear() called without a key (key=None)
Values == {"v1", "v2"}             \* opaque cached payloads
Durations == {"d1"}                \* opaque song durations
Filenames == {"a", "uncached"}     \* song files known to the facade
AllMusicKey == "all_music_list"
DurationKey(filename) == "duration:" \o filename
Keys == {"", AllMusicKey} \cup {DurationKey(fn) : fn \in Filenames}
KeyPair == {"", AllMusicKey}
TTLArgs == 0..MaxTTL               \* 0 stands for ttl=None and ttl=0 (both falsy)
Times == 0..MaxTime
AllFields == {"data", "time", "ttl"}

\* KeyHasher: md5 hex digest of the key, taken to be collision free.
_get_cache_key(key) == "md5(" \o key \o ")"
_get_cache_path(key) == _get_cache_key(key) \o ".cache"
Paths == {_get_cache_path(k) : k \in Keys}

\* One shape for "what is stored under a key / in a file":
\*   kind "none"    no dict entry / no file
\*   kind "garbage" a file pickle.load cannot deserialize (or not a dict)
\*   kind "dict"    the dict {"data","time","ttl"}; has = the keys present
NoEntry == [kind |-> "none", has |-> {}, data |-> None, time |-> 0, ttl |-> 0]
Garbage == [kind |-> "garbage", has |-> {}, data |-> None, time |-> 0, ttl |-> 0]
Dict(has, d, t, l) ==
    [kind |-> "dict", has |-> has,
     data |-> IF "data" \in has THEN d ELSE None,
     time |-> IF "time" \in has THEN t ELSE 0,
     ttl |-> IF "ttl" \in has THEN l ELSE 0]
Entry(d, t, l) == Dict(AllFields, d, t, l)

\* I/O failures injected into one call: the calls of that kind on those paths fail.
\*   "open"   open() raises          "write"  pickle.dump raises after open("wb")
\*   "unlink" unlink() raises        "io"     open() and unlink() both raise
NoFault == [kind |-> "none", paths |-> {}]
Fault(kind, paths) == [kind |-> kind, paths |-> paths]

VARIABLES
    memory_cache,   \* CacheManager.memory_cache : key -> entry
    files,          \* the *.cache files of cache_dir : path -> content
    now,            \* time.time()
    default_ttl,    \* CacheManager.default_ttl
    last,           \* the call that produced this state (arguments and outcome)
    threads,        \* the callers that are part-way through set or cleanup
    latest          \* history, kept where a specification starts it: key -> the
                    \* data of the most recent set of the key through Commit
                    \* since the key was last cleared, or None

vars == <<memory_cache, files, now, default_ttl, last, threads, latest>>

Idle == [op |-> "init", key |-> NoKey, data |-> None, ret |-> None,
         raised |-> FALSE, fault |-> "none", after_set |-> FALSE, removed |-> 0]
Env(op) == [Idle EXCEPT !.op = op]

\* outcome of one call: return value, whether an exception escaped, the I/O
\* failure that fired, and the two tiers afterwards
Result(ret, raised, fault, mem, fs) ==
    [ret |-> ret, raised |-> raised, fault |-> fault, mem |-> mem, fs |-> fs]

\* ------------------------------------------------------- CacheManager ----
\* ttl = ttl or self.default_ttl
TtlOrDefault(ttl, dflt) == IF ttl = 0 THEN dflt ELSE ttl

\* current_time - cache_data["time"] < cache_data["ttl"]
MemLive(e, t) == t - e.time < e.ttl

\* current_time - cache_data["time"] < ttl
FileLive(e, t, ttl) == t - e.time < ttl

\* current_time - cache_data["time"] > cache_data["ttl"]
CleanupExpired(e, t) == t - e.time > e.ttl

\* the persistent-tier half of get, entered with the memory tier mem
\* a file lookup that stamps the promoted entry with the time of the read
get_file_restamps(mem, fs, t, key, ttl, fault) ==
    LET path == _get_cache_path(key)
        f == fs[path]
    IN  IF f.kind = "dict" /\ "time" \in f.has /\ FileLive(f, t, ttl)
            THEN Result(IF "data" \in f.has THEN f.data ELSE None, FALSE, "none",
                        [mem EXCEPT ![key] = [f EXCEPT !.time = t]], fs)
        ELSE Result(None, FALSE, "none", mem, fs)

get_file(mem, fs, t, key, ttl, fault) ==
    LET path == _get_cache_path(key)
        f == fs[path]
        hit == path \in fault.paths
    IN  IF f.kind = "none" THEN Result(None, FALSE, "none", mem, fs)
        ELSE IF fault.kind \in {"open", "io"} /\ hit
            THEN Result(None, FALSE, fault.kind, mem, fs)
        ELSE IF f.kind = "garbage" \/ "time" \notin f.has
            THEN Result(None, FALSE, "none", mem, fs)
        ELSE IF FileLive(f, t, ttl)
            THEN Result(IF "data" \in f.has THEN f.data ELSE None, FALSE, "none",
                        [mem EXCEPT ![key] = f], fs)
        ELSE IF fault.kind = "unlink" /\ hit
            THEN Result(None, FALSE, "unlink", mem, fs)
        ELSE Result(None, FALSE, "none", mem, [fs EXCEPT ![path] = NoEntry])

get(mem, fs, t, dflt, key, ttlArg, fault) ==
    LET ttl == TtlOrDefault(ttlArg, dflt)
        m == mem[key]
    IN  IF m.kind = "none" THEN get_file(mem, fs, t, key, ttl, fault)
        ELSE IF ~({"time", "ttl"} \subseteq m.has)
            THEN Result(None, TRUE, "none", mem, fs)           \* KeyError escapes
        ELSE IF MemLive(m, t)
            THEN IF "data" \in m.has
                 THEN Result(m.data, FALSE, "none", mem, fs)
                 ELSE Result(None, TRUE, "none", mem, fs)      \* KeyError escapes
        ELSE get_file([mem EXCEPT ![key] = NoEntry], fs, t, key, ttl, fault)

\* set that writes the file only and forgets the memory tier
set_skips_memory(mem, fs, t, dflt, key, data, ttlArg, fault) ==
    LET cache_data == Entry(data, t, TtlOrDefault(ttlArg, dflt))
        path == _get_cache_path(key)
        hit == path \in fault.paths
    IN  IF fault.kind \in {"open", "io"} /\ hit
            THEN Result(None, FALSE, fault.kind, mem, fs)
        ELSE IF fault.kind = "write" /\ hit
            THEN Result(None, FALSE, "write", mem, [fs EXCEPT ![path] = Garbage])
        ELSE Result(None, FALSE, "none", mem, [fs EXCEPT ![path] = cache_data])

set(mem, fs, t, dflt, key, data, ttlArg, fault) ==
    LET cache_data == Entry(data, t, TtlOrDefault(ttlArg, dflt))
        path == _get_cache_path(key)
        hit == path \in fault.paths
        mem1 == [mem EXCEPT ![key] = cache_data]
    IN  IF fault.kind \in {"open", "io"} /\ hit
            THEN Result(None, FALSE, fault.kind, mem1, fs)
        ELSE IF fault.kind = "write" /\ hit
            THEN Result(None, FALSE, "write", mem1, [fs EXCEPT ![path] = Garbage])
        ELSE Result(None, FALSE, "none", mem1, [fs EXCEPT ![path] = cache_data])

\* if key:
KeyGiven(key) == key # NoKey /\ key # ""

clear_key(mem, fs, key, fault) ==
    LET path == _get_cache_path(key)
        mem1 == [mem EXCEPT ![key] = NoEntry]
    IN  IF fs[path].kind = "none" THEN Result(None, FALSE, "none", mem1, fs)
        ELSE IF fault.kind \in {"unlink", "io"} /\ path \in fault.paths
            THEN Result(None, TRUE, fault.kind, mem1, fs)      \* OSError escapes
        ELSE Result(None, FALSE, "none", mem1, [fs EXCEPT ![path] = NoEntry])

\* clear() that empties the memory tier and forgets the files
clear_all_keeps_files(mem, fs, fault) ==
    Result(None, FALSE, "none", [k \in Keys |-> NoEntry], fs)

clear_all(mem, fs, fault) ==
    LET fails(p) == fault.kind \in {"unlink", "io"} /\ p \in fault.paths
        fired == \E p \in Paths : fs[p].kind # "none" /\ fails(p)
    IN  Result(None, FALSE, IF fired THEN fault.kind ELSE "none",
               [k \in Keys |-> NoEntry],
               [p \in Paths |-> IF fails(p) THEN fs[p] ELSE NoEntry])

clear(mem, fs, key, fault) ==
    IF KeyGiven(key) THEN clear_key(mem, fs, key, fault)
    ELSE clear_all(mem, fs, fault)

\* a cleanup that also evicts the expired entries of the memory tier
cleanup_evicts_memory(mem, fs, t, fault) ==
    Result(None, FALSE, "none",
           [k \in Keys |-> IF CleanupExpired(mem[k], t) THEN NoEntry ELSE mem[k]], fs)

cleanup(mem, fs, t, fault) ==
    LET exists(p) == fs[p].kind # "none"
        openFails(p) == fault.kind \in {"open", "io"} /\ p \in fault.paths
        unlinkFails(p) == fault.kind \in {"unlink", "io"} /\ p \in fault.paths
        unreadable(p) == openFails(p) \/ fs[p].kind = "garbage"
                         \/ ~({"time", "ttl"} \subseteq fs[p].has)
        wanted(p) == unreadable(p) \/ CleanupExpired(fs[p], t)
        fired == \E p \in Paths :
                    exists(p) /\ (openFails(p) \/ (wanted(p) /\ unlinkFails(p)))
    IN  Result(None, FALSE, IF fired THEN fault.kind ELSE "none", mem,
               [p \in Paths |-> IF exists(p) /\ wanted(p) /\ ~unlinkFails(p)
                                THEN NoEntry ELSE fs[p]])

\* ------------------------------------------------------- MusicListCache ----
\* get_all_music that ignores force_refresh
get_all_music_no_clear(mem, fs, t, dflt, force_refresh, fault) ==
    get(mem, fs, t, dflt, AllMusicKey, MUSIC_LIST_TTL, fault)

\* a clear that raised leaves get_all_music before the get
get_all_music(mem, fs, t, dflt, force_refresh, fault) ==
    LET c == IF force_refresh THEN clear(mem, fs, AllMusicKey, fault)
             ELSE Result(None, FALSE, "none", mem, fs)
        g == get(c.mem, c.fs, t, dflt, AllMusicKey, MUSIC_LIST_TTL, fault)
    IN  IF c.raised THEN c ELSE g

set_all_music(mem, fs, t, dflt, music_list, fault) ==
    set(mem, fs, t, dflt, AllMusicKey, music_list, MUSIC_LIST_TTL, fault)

get_duration(mem, fs, t, dflt, filename, fault) ==
    get(mem, fs, t, dflt, DurationKey(filename), DURATION_TTL, fault)

set_duration(mem, fs, t, dflt, filename, duration, fault) ==
    set(mem, fs, t, dflt, DurationKey(filename), duration, DURATION_TTL, fault)

\* a Python dict with string keys: a function on the keys set so far
EmptyDict == [k \in {} |-> None]
DictSet(d, k, v) == [x \in DOMAIN d \cup {k} |-> IF x = k THEN v ELSE d[x]]
\* the two kinds of value get_duration_batch stores in its result
DurationValue(d) == [duration |-> d, list |-> <<>>]
ListValue(l) == [duration |-> None, list |-> l]

\* the loop of get_duration_batch from filenames[i] on; acc carries result,
\* uncached and the outcome (tiers, fault fired, exception) of the gets so far
RECURSIVE batch_loop(_, _, _, _, _, _)
batch_loop(filenames, i, acc, t, dflt, fault) ==
    IF i > Len(filenames) \/ acc.raised THEN acc
    ELSE LET filename == filenames[i]
             g == get_duration(acc.mem, acc.fs, t, dflt, filename, fault)
             hit == ~g.raised /\ g.ret # None
         IN  batch_loop(filenames, i + 1,
                 [result |-> IF hit THEN DictSet(acc.result, filename, DurationValue(g.ret))
                             ELSE acc.result,
                  uncached |-> IF hit \/ g.raised THEN acc.uncached
                               ELSE Append(acc.uncached, filename),
                  raised |-> g.raised,
                  fault |-> IF g.fault # "none" THEN g.fault ELSE acc.fault,
                  mem |-> g.mem, fs |-> g.fs],
                 t, dflt, fault)

get_duration_batch(mem, fs, t, dflt, filenames, fault) ==
    LET acc == batch_loop(filenames, 1,
                   [result |-> EmptyDict, uncached |-> <<>>, raised |-> FALSE,
                    fault |-> "none", mem |-> mem, fs |-> fs],
                   t, dflt, fault)
    IN  Result(IF acc.raised THEN EmptyDict
               ELSE DictSet(acc.result, "uncached", ListValue(acc.uncached)),
               acc.raised, acc.fault, acc.mem, acc.fs)

\* ------------------------------------------------------------ actions ----
\* number of cache files a call deleted (cleanup logs it as cleaned)
Removed(fsOld, fsNew) ==
    Cardinality({p \in Paths : fsOld[p].kind # "none" /\ fsNew[p].kind = "none"})

\* what the call does to the history of sets: a set makes its data the
\* latest of its key, a clear (alone or inside a forced get_all_music)
\* forgets the keys in its scope whose files it removed or found absent
NoHistory == [k \in Keys |-> "untracked"]
Latest(op, key, data, r) ==
    LET scope == IF op = "clear" /\ ~KeyGiven(key) THEN Keys ELSE {key}
    IN  IF latest = NoHistory THEN latest
        ELSE IF op \in {"set", "set_all_music", "set_duration"}
            THEN [latest EXCEPT ![key] = data]
        ELSE IF op \in {"clear", "get_all_music_force"}
            THEN [k \in Keys |-> IF k \in scope /\ r.fs[_get_cache_path(k)].kind = "none"
                                 THEN None ELSE latest[k]]
        ELSE latest

\* the call recorded in last: its name, key, payload and outcome (a ttl
\* argument shows in the outcome only); after_set marks a get that directly
\* follows a set of the same key
Commit(op, key, data, r, fault) ==
    /\ fault.kind = r.fault          \* only failures that fire are distinguished
    /\ memory_cache' = r.mem
    /\ files' = r.fs
    /\ last' = [op |-> op, key |-> key, data |-> data, ret |-> r.ret,
                raised |-> r.raised, fault |-> r.fault,
                after_set |-> op = "get" /\ last.op = "set" /\ last.key = key,
                removed |-> Removed(files, r.fs)]
    /\ latest' = Latest(op, key, data, r)
    /\ UNCHANGED <<now, default_ttl, threads>>

KeyFaults(key, kinds) == {NoFault} \cup {Fault(k, {_get_cache_path(key)}) : k \in kinds}
SweepFaults(kinds) == {NoFault} \cup
    {Fault(k, P) : k \in kinds, P \in SUBSET {p \in Paths : files[p].kind # "none"} \ {{}}}

\* no key other than key holds anything in either tier
Alone(key) ==
    \A k \in Keys \ {key} :
        memory_cache[k].kind = "none" /\ files[_get_cache_path(k)].kind = "none"

Get(K, T, solo) ==
    \E key \in K, ttl \in T :
        \E fault \in KeyFaults(key, {"open", "unlink"}) :
            /\ solo => Alone(key)
            /\ Commit("get", key, None,
                      get(memory_cache, files, now, default_ttl, key, ttl, fault), fault)

Set(K, V, T, FK, solo) ==
    \E key \in K, data \in V, ttl \in T :
        \E fault \in KeyFaults(key, FK) :
            /\ solo => Alone(key)
            /\ Commit("set", key, data,
                      set(memory_cache, files, now, default_ttl, key, data, ttl, fault), fault)

Clear(K, solo) ==
    \E key \in K \cup {NoKey} :
        \E fault \in IF KeyGiven(key) THEN KeyFaults(key, {"unlink"})
                     ELSE SweepFaults({"unlink"}) :
            /\ (solo /\ key # NoKey) => Alone(key)
            /\ Commit("clear", key, None, clear(memory_cache, files, key, fault), fault)

Cleanup ==
    \E fault \in SweepFaults({"open", "unlink", "io"}) :
        Commit("cleanup", NoKey, None, cleanup(memory_cache, files, now, fault), fault)

GetAllMusic ==
    \E force_refresh \in BOOLEAN :
        \E fault \in KeyFaults(AllMusicKey, {"open", "unlink"}) :
            Commit(IF force_refresh THEN "get_all_music_force" ELSE "get_all_music",
                   AllMusicKey, None,
                   get_all_music(memory_cache, files, now, default_ttl, force_refresh, fault),
                   fault)

SetAllMusic ==
    \E music_list \in Values :
        \E fault \in KeyFaults(AllMusicKey, {"open", "write"}) :
            Commit("set_all_music", AllMusicKey, music_list,
                   set_all_music(memory_cache, files, now, default_ttl, music_list, fault),
                   fault)

GetDuration(F) ==
    \E filename \in F :
        \E fault \in KeyFaults(DurationKey(filename), {"open", "unlink"}) :
            Commit("get_duration", DurationKey(filename), None,
                   get_duration(memory_cache, files, now, default_ttl, filename, fault),
                   fault)

SetDuration(F) ==
    \E filename \in F, duration \in Durations :
        \E fault \in KeyFaults(DurationKey(filename), {"open", "write"}) :
            Commit("set_duration", DurationKey(filename), duration,
                   set_duration(memory_cache, files, now, default_ttl, filename, duration, fault),
                   fault)

\* the request lists: every sequence of at most MaxBatch filenames
Requests == UNION {[1..n -> Filenames] : n \in 0..MaxBatch}

GetDurationBatch ==
    \E filenames \in Requests :
        \E fault \in {NoFault} \cup
                {Fault(k, {_get_cache_path(DurationKey(filenames[i]))}) :
                    k \in {"open", "unlink"}, i \in 1..Len(filenames)} :
            Commit("get_duration_batch", NoKey, filenames,
                   get_duration_batch(memory_cache, files, now, default_ttl, filenames, fault),
                   fault)

\* ------------------------------------------- statements of set, cleanup ----
\* set and cleanup take no lock, so callers on different threads interleave
\* statement by statement. Each caller of set is at one of
\*   "idle"    not yet called        "begun"   cache_data built (lines 90-95)
\*   "stored"  memory_cache written  "opened"  open(path, "wb") has truncated
\*   "done"    pickle.dump and close finished, set has returned
\* and cleanup is "idle" (never called), "sweeping" or "done".
Writers == {1, 2}
ConcKey == AllMusicKey

NoThreads ==
    [set |-> [w \in Writers |-> [pc |-> "idle", cache_data |-> NoEntry, linked |-> FALSE]],
     sweep |-> [pc |-> "idle", current_time |-> 0, todo |-> {}, doomed |-> {}],
     completed |-> 0]

Step(op) ==
    /\ last' = Env(op)
    /\ UNCHANGED <<now, default_ttl, latest>>

\* lines 90-95: ttl resolved, cache_data stamped with time.time()
SetBegin(V, T) ==
    \E w \in Writers, data \in V, ttlArg \in T :
        /\ threads.set[w].pc = "idle"
        /\ threads' = [threads EXCEPT !.set[w] =
               [pc |-> "begun", linked |-> FALSE,
                cache_data |-> Entry(data, now, TtlOrDefault(ttlArg, default_ttl))]]
        /\ Step("set")
        /\ UNCHANGED <<memory_cache, files>>

\* line 98
SetMemory ==
    \E w \in Writers :
        /\ threads.set[w].pc = "begun"
        /\ memory_cache' = [memory_cache EXCEPT ![ConcKey] = threads.set[w].cache_data]
        /\ threads' = [threads EXCEPT !.set[w].pc = "stored"]
        /\ Step("set")
        /\ UNCHANGED files

\* line 101: open(..., "wb") creates the file or truncates it to no bytes
SetOpen ==
    \E w \in Writers :
        /\ threads.set[w].pc = "stored"
        /\ files' = [files EXCEPT ![_get_cache_path(ConcKey)] = Garbage]
        /\ threads' = [threads EXCEPT !.set[w].pc = "opened", !.set[w].linked = TRUE]
        /\ Step("set")
        /\ UNCHANGED memory_cache

\* line 102 and the close of the with block: the bytes go to the file the
\* caller opened, which is no longer the file at path once that was unlinked
SetDump ==
    \E w \in Writers :
        /\ threads.set[w].pc = "opened"
        /\ files' = IF threads.set[w].linked
                        THEN [files EXCEPT ![_get_cache_path(ConcKey)] = threads.set[w].cache_data]
                        ELSE files
        /\ threads' = [threads EXCEPT !.set[w].pc = "done", !.set[w].linked = FALSE,
                                      !.completed = w]
        /\ Step("set")
        /\ UNCHANGED memory_cache

\* lines 135-138: current_time taken once, glob lists the files there are
SweepGlob ==
    /\ threads.sweep.pc \in {"idle", "done"}
    /\ threads' = [threads EXCEPT !.sweep =
           [pc |-> "sweeping", current_time |-> now, doomed |-> {},
            todo |-> {p \in Paths : files[p].kind # "none"}]]
    /\ Step("cleanup")
    /\ UNCHANGED <<memory_cache, files>>

\* lines 139-143, 145: one file is opened, loaded and judged; a file that has
\* gone meanwhile fails to open and fails to unlink, and the loop goes on
SweepLoad ==
    \E p \in threads.sweep.todo :
        /\ threads.sweep.pc = "sweeping" /\ threads.sweep.doomed = {}
        /\ threads' =
             IF files[p].kind # "none"
                /\ cleanup(memory_cache, files, threads.sweep.current_time, NoFault).fs[p].kind = "none"
             THEN [threads EXCEPT !.sweep.doomed = {p}]
             ELSE [threads EXCEPT !.sweep.todo = @ \ {p}]
        /\ Step("cleanup")
        /\ UNCHANGED <<memory_cache, files>>

\* lines 144, 148: unlink removes whatever file is at the path by now
SweepUnlink ==
    \E p \in threads.sweep.doomed :
        /\ files' = [files EXCEPT ![p] = NoEntry]
        /\ threads' = [threads EXCEPT
               !.sweep.doomed = {}, !.sweep.todo = @ \ {p},
               !.set = [w \in Writers |->
                          [@[w] EXCEPT !.linked = @ /\ p # _get_cache_path(ConcKey)]]]
        /\ Step("cleanup")
        /\ UNCHANGED memory_cache

\* lines 154-155
SweepEnd ==
    /\ threads.sweep.pc = "sweeping" /\ threads.sweep.todo = {}
    /\ threads' = [threads EXCEPT !.sweep.pc = "done"]
    /\ Step("cleanup")
    /\ UNCHANGED <<memory_cache, files>>

\* ------------------------------------------------------- environment ----
Tick ==
    /\ now < MaxTime
    /\ now' = now + 1
    /\ last' = Env("tick")
    /\ UNCHANGED <<memory_cache, files, default_ttl, threads, latest>>

\* CacheManager.__init__ in a new process over the same cache_dir
Restart(D) ==
    /\ memory_cache' = [k \in Keys |-> NoEntry]
    /\ default_ttl' \in D
    /\ last' = Env("restart")
    /\ UNCHANGED <<files, now, threads, latest>>

\* something other than CacheManager.set writes a cache file: garbage bytes,
\* or a pickled dict without its "ttl" or without its "data"
Foreign(t) ==
    {Garbage, Dict({"data", "time"}, "v1", t, 0), Dict({"time", "ttl"}, None, t, MaxTTL)}

Tamper ==
    \E key \in KeyPair, c \in Foreign(now) :
        /\ Alone(key)
        /\ files' = [files EXCEPT ![_get_cache_path(key)] = c]
        /\ last' = [Env("tamper") EXCEPT !.key = key]
        /\ UNCHANGED <<memory_cache, now, default_ttl, threads, latest>>

Init ==
    /\ memory_cache = [k \in Keys |-> NoEntry]
    /\ files = [p \in Paths |-> NoEntry]
    /\ now = 0
    /\ default_ttl \in 1..MaxTTL
    /\ last = Idle
    /\ threads = NoThreads
    /\ latest = NoHistory

\* CacheManager, one key at a time
Next ==
    \/ Get(KeyPair, TTLArgs, TRUE)
    \/ Set(KeyPair, Values, TTLArgs, {"open", "write"}, TRUE)
    \/ Clear(KeyPair, TRUE)
    \/ Cleanup
    \/ Tick
    \/ Restart(1..MaxTTL)
    \/ Tamper

Spec == Init /\ [][Next]_vars

\* CacheManager, all keys together: one payload, ttl=1 or the default
NextKeys ==
    \/ Get(KeyPair, {0}, FALSE)
    \/ Set(KeyPair, {"v1"}, {0, 1}, {"write"}, FALSE)
    \/ Clear(KeyPair, FALSE)
    \/ Cleanup
    \/ Tick
    \/ Restart({default_ttl})

SpecKeys == Init /\ [][NextKeys]_vars

\* MusicListCache
NextFacade ==
    \/ GetAllMusic
    \/ SetAllMusic
    \/ GetDuration({"a"})
    \/ SetDuration({"a"})
    \/ Cleanup
    \/ Tick
    \/ Restart({default_ttl})

SpecFacade == Init /\ [][NextFacade]_vars

\* MusicListCache, the duration bucket only
NextBatch ==
    \/ SetDuration(Filenames)
    \/ GetDurationBatch
    \/ Tick
    \/ Restart({default_ttl})

SpecBatch == Init /\ [][NextBatch]_vars

\* CacheManager with no foreign writer, one key at a time, with the history
\* of sets kept from the start
InitStale ==
    /\ memory_cache = [k \in Keys |-> NoEntry]
    /\ files = [p \in Paths |-> NoEntry]
    /\ now = 0
    /\ default_ttl \in 1..MaxTTL
    /\ last = Idle
    /\ threads = NoThreads
    /\ latest = [k \in Keys |-> None]

NextStale ==
    \/ Get(KeyPair, TTLArgs, TRUE)
    \/ Set(KeyPair, Values, TTLArgs, {"open"}, TRUE)
    \/ Clear(KeyPair, TRUE)
    \/ Cleanup
    \/ Tick
    \/ Restart({default_ttl})

SpecStale == InitStale /\ [][NextStale]_vars

\* two callers of set, one call each, and a background cleanup on one key,
\* statement by statement
NextConc ==
    \/ SetBegin(Values, {0, 1})
    \/ SetMemory
    \/ SetOpen
    \/ SetDump
    \/ SweepGlob
    \/ SweepLoad
    \/ SweepUnlink
    \/ SweepEnd
    \/ Tick

SpecConc == Init /\ [][NextConc]_vars

\* ------------------------------------------------------------- claims ----
Path(key) == _get_cache_path(key)
Complete(e) == e.kind = "dict" /\ e.has = AllFields
Absent(e) == e.kind = "none"
\* this step is the call with outcome r
IsCall(r) == last'.ret = r.ret /\ memory_cache' = r.mem /\ files' = r.fs

\* C1: set(k, v, ttl) followed immediately by get(k) (any ttl argument, no
\* time elapsed, nothing in between) returns v, whether or not the file
\* write of that set succeeded.
C1_RoundTrip ==
    [][(last.op = "set" /\ last'.op = "get" /\ last'.key = last.key)
          => last'.ret = last.data]_vars

\* a get right after a set whose file write failed returned the value set
C1_Witness ==
    /\ last.op = "get" /\ last.after_set
    /\ last.ret \in Values
    /\ memory_cache[last.key].data = last.ret
    /\ files[Path(last.key)] # memory_cache[last.key]

\* C2: once the entry that set(k, v, ttl=t) wrote at T0 is older than t, a
\* get(k) without a ttl argument returns absent and leaves neither a file
\* nor a memory entry for k, whatever the default TTL is.
C2_Expiry ==
    [][(/\ last'.op = "get" /\ last'.fault = "none"
        /\ IsCall(get(memory_cache, files, now, default_ttl, last'.key, 0, NoFault))
        /\ Complete(files[Path(last'.key)])
        /\ now > files[Path(last'.key)].time + files[Path(last'.key)].ttl
        /\ memory_cache[last'.key] \in {NoEntry, files[Path(last'.key)]})
          => (/\ last'.ret = None
              /\ Absent(files'[Path(last'.key)])
              /\ Absent(memory_cache'[last'.key]))]_vars

\* C3: the outcome of get(k, ttl) - the value returned and both tiers
\* afterwards - is the same for every choice of the ttl argument.
C3_TtlArgumentIrrelevant ==
    \A key \in Keys : \A t1, t2 \in TTLArgs :
        get(memory_cache, files, now, default_ttl, key, t1, NoFault)
            = get(memory_cache, files, now, default_ttl, key, t2, NoFault)

\* C4: with an empty memory tier and a file for k that is live under its own
\* recorded TTL, get(k) with any ttl argument returns the persisted value,
\* keeps the file and promotes the entry, and a following get(k) is answered
\* from memory without changing either tier.
C4_TierPromotion ==
    [][(/\ last'.op = "get" /\ last'.fault = "none"
        /\ \A k \in Keys : Absent(memory_cache[k])
        /\ Complete(files[Path(last'.key)])
        /\ MemLive(files[Path(last'.key)], now))
          => (/\ last'.ret = files[Path(last'.key)].data
              /\ files' = files
              /\ memory_cache'[last'.key] = files[Path(last'.key)]
              /\ \A t \in TTLArgs :
                    get(memory_cache', files', now', default_ttl', last'.key, t, NoFault)
                      = Result(last'.ret, FALSE, "none", memory_cache', files'))]_vars

\* C5: clear(k) with a string key k, the empty string included, removes k
\* from both tiers and leaves every other key in both tiers unchanged.
C5_SingleKeyClear ==
    [][(last'.op = "clear" /\ last'.key \in Keys /\ last'.fault = "none")
          => (/\ Absent(memory_cache'[last'.key])
              /\ Absent(files'[Path(last'.key)])
              /\ \A k \in Keys \ {last'.key} :
                    /\ memory_cache'[k] = memory_cache[k]
                    /\ files'[Path(k)] = files[Path(k)])]_vars

\* C6: clear() without a key leaves the memory tier empty and no cache file,
\* so that get returns absent for every key.
C6_FullClear ==
    [][(last'.op = "clear" /\ last'.key = NoKey /\ last'.fault = "none")
          => (/\ \A k \in Keys : Absent(memory_cache'[k])
              /\ \A p \in Paths : Absent(files'[p])
              /\ \A k \in Keys : \A t \in TTLArgs :
                    get(memory_cache', files', now', default_ttl', k, t, NoFault).ret
                      = None)]_vars

\* a clear() that removed the files of several keys
C6_Witness ==
    /\ last.op = "clear" /\ last.key = NoKey /\ last.fault = "none"
    /\ last.removed >= 2
    /\ \A p \in Paths : Absent(files[p])

\* C7: get(k) on a file that cannot be deserialized, with no live memory
\* entry for k, returns absent and the file no longer exists afterwards.
C7_CorruptFileSelfHeals ==
    [][(/\ last'.op = "get" /\ last'.fault = "none"
        /\ files[Path(last'.key)].kind = "garbage"
        /\ \/ Absent(memory_cache[last'.key])
           \/ Complete(memory_cache[last'.key]) /\ ~MemLive(memory_cache[last'.key], now))
          => (last'.ret = None /\ Absent(files'[Path(last'.key)]))]_vars

\* C8: over well-formed files, cleanup() deletes exactly the files whose
\* entry is not live (not now - createdAt < ttl, own recorded ttl) and
\* leaves the others with unchanged content.
C8_CleanupCorrectness ==
    [][(/\ last'.op = "cleanup" /\ last'.fault = "none"
        /\ \A p \in Paths : Absent(files[p]) \/ Complete(files[p]))
          => \A p \in Paths :
                files'[p] = IF Complete(files[p]) /\ ~MemLive(files[p], now)
                            THEN NoEntry ELSE files[p]]_vars

\* C9: no call of get, set, clear(key), clear() or cleanup raises to its
\* caller, whatever I/O failure or file content it meets.
C9_NoErrorEscapes ==
    last.op \in {"get", "set", "clear", "cleanup"} => ~last.raised

\* C10: get_all_music(force_refresh=True) returns absent and leaves no entry
\* for "all_music_list" in either tier; entries of other keys are unchanged.
C10_ForcedRefreshMisses ==
    [][(last'.op = "get_all_music_force" /\ last'.fault = "none")
          => (/\ last'.ret = None
              /\ Absent(memory_cache'[AllMusicKey])
              /\ Absent(files'[Path(AllMusicKey)])
              /\ \A k \in Keys \ {AllMusicKey} :
                    /\ memory_cache'[k] = memory_cache[k]
                    /\ files'[Path(k)] = files[Path(k)])]_vars

\* a forced refresh that removed the music-list file while a duration entry
\* stayed in both tiers
C10_Witness ==
    /\ last.op = "get_all_music_force" /\ last.fault = "none"
    /\ last.removed = 1 /\ last.ret = None
    /\ \E fn \in Filenames :
          /\ Complete(memory_cache[DurationKey(fn)])
          /\ Complete(files[Path(DurationKey(fn))])

\* C11: get_duration_batch partitions the request: every requested filename
\* with a live cached duration is a hit mapped to that duration, every other
\* requested filename is in the misses in request order, none is in both or
\* in neither - also for a file named "uncached".
Cached(filename) ==
    get_duration(memory_cache, files, now, default_ttl, filename, NoFault).ret
C11_BatchDurationSplit ==
    [][(last'.op = "get_duration_batch" /\ last'.fault = "none" /\ ~last'.raised)
          => LET request == last'.data
                 result == last'.ret
                 IsHit(fn) == fn \in DOMAIN result /\ result[fn] = DurationValue(Cached(fn))
                 misses == result["uncached"].list
             IN  /\ misses = SelectSeq(request, LAMBDA fn : Cached(fn) = None)
                 /\ \A i \in 1..Len(request) :
                       Cached(request[i]) # None => IsHit(request[i])]_vars

\* C12: cleanup does not race with set on the same key: once a set(k, v, ttl)
\* and a cleanup interleaved with it in any way have both finished, and the
\* entry is live, the file of k exists and holds the entry that set wrote.
C12_CleanupDoesNotRaceSet ==
    \A w \in Writers :
        (/\ threads.set[w].pc = "done"
         /\ \A o \in Writers \ {w} : threads.set[o].pc = "idle"
         /\ threads.sweep.pc = "done"
         /\ MemLive(threads.set[w].cache_data, now))
            => files[Path(ConcKey)] = threads.set[w].cache_data

\* C13: last writer wins in both tiers: after two concurrent set(k, v1) and
\* set(k, v2), interleaved in any order with no write failing, have both
\* completed, the memory tier and the file of k hold the same entry, that of
\* the set that completed last.
C13_LastWriterWins ==
    (/\ \A w \in Writers : threads.set[w].pc = "done"
     /\ threads.sweep.pc = "idle")
        => /\ memory_cache[ConcKey] = threads.set[threads.completed].cache_data
           /\ files[Path(ConcKey)] = threads.set[threads.completed].cache_data

\* C14: the persistent write is atomic: while a set(k, v) is between opening
\* and closing the file, the file of k is absent or holds a complete entry,
\* never an empty or partly written one.
C14_AtomicPersistentWrite ==
    (\E w \in Writers : threads.set[w].pc = "opened")
        => Absent(files[Path(ConcKey)]) \/ Complete(files[Path(ConcKey)])

\* C15: a failed save is a no-op for the persistent tier: when the file write
\* inside set(k, v) fails, at open or part-way through the dump, set returns
\* normally, the memory tier holds the new entry, and every file is exactly
\* as it was before the call.
C15_FailedSaveIsNoOp ==
    [][(last'.op = "set" /\ last'.fault \in {"open", "write"})
          => /\ ~last'.raised
             /\ Complete(memory_cache'[last'.key])
             /\ memory_cache'[last'.key].data = last'.data
             /\ memory_cache'[last'.key].time = now
             /\ files' = files]_vars

\* C16: lazy and eager expiry agree: for every persisted entry and every
\* time, the boundary now - createdAt = ttl included, cleanup deletes the
\* file exactly when a get of that key at the same time, with the memory
\* tier empty and the entry's own ttl, would find it expired and delete it.
C16_ExpiryParity ==
    \A key \in KeyPair :
        Complete(files[Path(key)])
            => LET empty == [k \in Keys |-> NoEntry]
                   swept == cleanup(empty, files, now, NoFault).fs[Path(key)]
                   read == get(empty, files, now, default_ttl, key,
                               files[Path(key)].ttl, NoFault).fs[Path(key)]
               IN  Absent(swept) <=> Absent(read)

\* C17: cleanup changes only the persistent tier: the memory tier is the same
\* mapping after a cleanup as before it, also for the keys whose files the
\* cleanup deleted.
C17_CleanupLeavesMemory ==
    [][last'.op = "cleanup" => memory_cache' = memory_cache]_vars

\* a cleanup has just deleted a file whose key is still in the memory tier
C17_Witness ==
    /\ last.op = "cleanup" /\ last.removed > 0
    /\ \E key \in KeyPair :
          memory_cache[key].kind = "dict" /\ Absent(files[Path(key)])

\* C18: cleanup is idempotent and complete: after a cleanup in which no I/O
\* failed, a second cleanup at the same clock removes nothing and leaves both
\* tiers as they are, and the persistent tier holds no corrupt file and no
\* expired entry.
C18_CleanupIdempotentComplete ==
    [][(last'.op = "cleanup" /\ last'.fault = "none")
          => LET again == cleanup(memory_cache', files', now, NoFault)
             IN  /\ again.mem = memory_cache' /\ again.fs = files'
                 /\ \A p \in Paths :
                       \/ Absent(files'[p])
                       \/ Complete(files'[p]) /\ MemLive(files'[p], now)]_vars

\* C19: no stale value is resurrected: after any sequence of set, get, clear
\* and cleanup, sets whose file write failed included, a get(k) that returns
\* a value returns the value of the most recent set(k) since the last clear
\* of k, never an earlier one.
C19_NoStaleValue ==
    [][(last'.op = "get" /\ ~last'.raised /\ last'.ret # None)
          => last'.ret = latest[last'.key]]_vars

TypeOK ==
    /\ now \in Times
    /\ default_ttl \in 1..MaxTTL
    /\ \A k \in Keys : memory_cache[k].kind \in {"none", "dict"}
    /\ \A p \in Paths : files[p].kind \in {"none", "garbage", "dict"}
====
